---- MODULE Spec2Model ----
(***************************************************************************)
(* The parallel chunked generation engine of gen (src/src/program.rs):     *)
(* the orchestrating thread plans per-worker chunks, spawns one thread per *)
(* non-empty chunk, the workers fill bounded buffers and flush them        *)
(* through the shared Mutex-guarded writer, the orchestrator joins them    *)
(* and writes the leftover.  Thread 0 is the orchestrator, threads         *)
(* 1..num_threads are the workers.  Text is a sequence of code points,     *)
(* the sink receives sequences of bytes.                                   *)
(***************************************************************************)
EXTENDS Integers, Sequences, FiniteSets, TLC

----------------------------------------------------------------------------
(* Bounds of the model. *)

MaxThreads == 2
\* ascii sizes are SIMUL_BYTES * g + l with g <= MaxGroups, l <= MaxLeftover
MaxGroups == 3
MaxLeftover == 1
\* scalar amounts 1..MaxAmount (plus one amount above the default-buffer threshold)
MaxAmount == 4
\* unicode sizes are min_byte_size * u + r with u <= MaxUnits, r <= 1
MaxUnits == 4
\* scalar buffer lengths 1..MaxBufLen
MaxBufLen == 2
\* a streaming sink accepts at most this many writes before its reader is gone
MaxStreamWrites == 2

----------------------------------------------------------------------------
(* Program constants. *)

SIMUL_BYTES == 8
\* the streaming ascii buffer is SIMUL_BYTES * STREAM_GROUPS bytes
STREAM_GROUPS == 128
\* the streaming scalar buffer length
STREAM_BUF_LEN == 1024
\* chunks above this get the default buffer chunk_size / num_threads
DEFAULT_BUF_THRESHOLD == 1000
DEFAULT_AMOUNT == 1
DEFAULT_SIZE == 1
INT_MIN_DEFAULT == 0
INT_MAX_DEFAULT == 99
NEWLINE == 10

\* Option::None of a number and of a String
NoneN == -1
NoneS == <<-1>>

----------------------------------------------------------------------------
(* Helpers on sequences. *)

Range(s) == {s[i] : i \in 1..Len(s)}

\* s[lo] + ... + s[hi], by halves
RECURSIVE SumRange(_, _, _)
SumRange(s, lo, hi) ==
    IF lo > hi THEN 0
    ELSE IF lo = hi THEN s[lo]
    ELSE LET mid == (lo + hi) \div 2 IN SumRange(s, lo, mid) + SumRange(s, mid + 1, hi)

SumSeq(s) == SumRange(s, 1, Len(s))

Min(a, b) == IF a < b THEN a ELSE b

\* A thread's random source (rand::thread_rng()) is the periodic stream of what it
\* yields, given by one period; each element stands for one output of the generator.
Seeds == {<<0>>, <<1>>, <<0, 1>>}

\* the next k outputs of the source r, and the source after them
Draws(r, k) == [i \in 1..k |-> r[((i - 1) % Len(r)) + 1]]
Advance(r, k) == [i \in 1..Len(r) |-> r[((i - 1 + k) % Len(r)) + 1]]

\* rng.gen::<u64>() as its eight bytes (num.to_ne_bytes())
gen_u64(raw) ==
    IF raw = 0 THEN <<0, 1, 2, 3, 4, 5, 6, 7>> ELSE <<255, 254, 128, 127, 96, 95, 65, 33>>

\* a variant that draws from 0..=n, to test what the index property detects
gen_range_inclusive(raw, n) == IF raw = 0 THEN 0 ELSE n

\* rng.gen_range(0..n)
gen_range(raw, n) == IF raw = 0 THEN 0 ELSE n - 1

----------------------------------------------------------------------------
(* Conversions. *)

\* `c as u8` for a char c: the low eight bits of its code point
AsU8(c) == c % 256

\* the little-endian bytes of an n-byte unsigned integer
RECURSIVE to_le_bytes(_, _)
to_le_bytes(v, n) == IF n = 0 THEN <<>> ELSE <<v % 256>> \o to_le_bytes(v \div 256, n - 1)

len_utf8(c) == IF c < 128 THEN 1 ELSE IF c < 2048 THEN 2 ELSE IF c < 65536 THEN 3 ELSE 4

encode_utf8(c) ==
    CASE c < 128   -> <<c>>
      [] c < 2048  -> <<192 + (c \div 64), 128 + (c % 64)>>
      [] c < 65536 -> <<224 + (c \div 4096), 128 + ((c \div 64) % 64), 128 + (c % 64)>>
      [] OTHER     -> <<240 + (c \div 262144), 128 + ((c \div 4096) % 64),
                        128 + ((c \div 64) % 64), 128 + (c % 64)>>

\* number of 16-bit units
len_utf16(c) == IF c < 65536 THEN 1 ELSE 2

\* a variant that keeps the first unit only, to test what the alignment property detects
encode_utf16_le_first_unit(c) ==
    IF c < 65536 THEN to_le_bytes(c, 2)
    ELSE to_le_bytes(55296 + ((c - 65536) \div 1024), 2)

\* the units of encode_utf16, each as its two little-endian bytes
encode_utf16_le(c) ==
    IF c < 65536 THEN to_le_bytes(c, 2)
    ELSE to_le_bytes(55296 + ((c - 65536) \div 1024), 2)
         \o to_le_bytes(56320 + ((c - 65536) % 1024), 2)

encode_utf32_le(c) == to_le_bytes(c, 4)

\* i64::to_string as ASCII bytes
RECURSIVE Digits(_)
Digits(n) == IF n < 10 THEN <<48 + n>> ELSE Digits(n \div 10) \o <<48 + (n % 10)>>

to_string(v) == IF v < 0 THEN <<45>> \o Digits(0 - v) ELSE Digits(v)

\* vals[lo..hi] as strings with "\n" between them, by halves
JoinRange(vals, lo, hi) ==
    LET join[r \in (0..(Len(vals) + 1)) \X (0..(Len(vals) + 1))] ==
            IF r[1] > r[2] THEN <<>>
            ELSE IF r[1] = r[2] THEN to_string(vals[r[1]])
            ELSE LET mid == (r[1] + r[2]) \div 2
                 IN  join[<<r[1], mid>>] \o <<NEWLINE>> \o join[<<mid + 1, r[2]>>]
    IN  join[<<lo, hi>>]

\* buffer.iter().map(to_string).collect().join("\n")
JoinLines(vals) == JoinRange(vals, 1, Len(vals))

----------------------------------------------------------------------------
(* The requests (GenArgs) the runs are started with. *)

Threads == 1..MaxThreads

PrintableAscii ==
    [charset |-> NoneS, printable_only |-> TRUE, exclude |-> <<>>, exclude_codes |-> {}]

\* charset, printable_only, exclude, exclude_codes of the ascii command
AsciiAlphabets ==
    { PrintableAscii,
      [charset |-> <<97, 98, 99>>, printable_only |-> FALSE, exclude |-> <<98>>,
       exclude_codes |-> {}],
      [charset |-> NoneS, printable_only |-> FALSE, exclude |-> <<>>,
       exclude_codes |-> 0..127],
      [charset |-> <<321>>, printable_only |-> FALSE, exclude |-> <<65>>,
       exclude_codes |-> {}] }

\* charset, exclude of the unicode command
MixedSymbols == [charset |-> <<97, 233, 128512>>, exclude |-> <<>>]

UnicodeAlphabets ==
    { MixedSymbols,
      [charset |-> <<97, 128512, 128513>>, exclude |-> <<97>>],
      [charset |-> <<8364, 8365>>, exclude |-> <<>>],
      [charset |-> <<97>>, exclude |-> <<97>>] }

AsciiSizes == {SIMUL_BYTES * g + l : g \in 0..MaxGroups, l \in 0..MaxLeftover}

AsciiBufSizes == {NoneN, SIMUL_BYTES - 1, 2 * SIMUL_BYTES, 4 * SIMUL_BYTES + 1}

\* runs without a progress bar are started with one thread only
ProgressFlags(t) == IF t = 1 THEN BOOLEAN ELSE {TRUE}

\* the alphabet is resolved before any thread is spawned: every alphabet is run with
\* one thread, one alphabet with every number of threads
AsciiAlphabetsOf(t) == IF t = 1 THEN AsciiAlphabets ELSE {PrintableAscii}
UnicodeAlphabetsOf(t) == IF t = 1 THEN UnicodeAlphabets ELSE {MixedSymbols}

Encodings == {"utf8", "utf16", "utf32"}

min_byte_size_of(encoding) ==
    CASE encoding = "utf8" -> 1 [] encoding = "utf16" -> 2 [] encoding = "utf32" -> 4

UnicodeSizes(encoding) ==
    LET m == min_byte_size_of(encoding)
    IN  {m * u + r : u \in 0..MaxUnits, r \in 0..Min(1, m - 1)}

UnicodeBufSizes(encoding) ==
    LET m == min_byte_size_of(encoding)
    IN  {NoneN, m - 1, 2 * m + 1}

Amounts == 1..MaxAmount

BufLens == {NoneN} \cup 1..MaxBufLen

\* buffers that split a chunk into several rounds are run with one or two threads;
\* with more threads the buffer is absent, rejected, or holds the whole chunk
AsciiBufSizesOf(t) ==
    IF t <= 2 THEN AsciiBufSizes
    ELSE {b \in AsciiBufSizes : b = NoneN \/ b \div t < SIMUL_BYTES}

UnicodeBufSizesOf(encoding, t) ==
    IF t <= 2 THEN UnicodeBufSizes(encoding)
    ELSE {b \in UnicodeBufSizes(encoding) : b = NoneN \/ b \div t < min_byte_size_of(encoding)}

BufLensOf(t) == IF t <= 2 THEN BufLens ELSE {NoneN, MaxBufLen}

Request(cmd, size, enc, a, threads, buf, progress, daemon) ==
    [cmd |-> cmd, size |-> size, encoding |-> enc, charset |-> a.charset,
     printable_only |-> a.printable_only, exclude |-> a.exclude,
     exclude_codes |-> a.exclude_codes, threads |-> threads, buf_size |-> buf,
     progress |-> progress, daemon |-> daemon]

NoAlphabet == [charset |-> NoneS, printable_only |-> FALSE, exclude |-> <<>>, exclude_codes |-> {}]

AsciiRequests ==
    UNION {{Request("ascii", s, "none", a, t, b, p, FALSE) :
               s \in AsciiSizes, a \in AsciiAlphabetsOf(t), b \in AsciiBufSizesOf(t),
               p \in ProgressFlags(t)} : t \in Threads}
    \cup
    UNION {{Request("ascii", NoneN, "none", PrintableAscii, t, NoneN, p, d) :
               p \in ProgressFlags(t), d \in BOOLEAN} : t \in Threads \cap {1, 2}}
    \cup
    {Request("ascii", NoneN, "none", PrintableAscii, 1, 2 * SIMUL_BYTES, TRUE, TRUE)}

\* an amount whose chunks are above DEFAULT_BUF_THRESHOLD
LargeAmount(t) == t * (DEFAULT_BUF_THRESHOLD + 2)

IntRequests ==
    UNION {{Request("int", n, "none", NoAlphabet, t, b, p, FALSE) :
               n \in Amounts \cup {NoneN}, b \in BufLensOf(t), p \in ProgressFlags(t)}
           : t \in Threads}
    \cup
    {Request("int", LargeAmount(t), "none", NoAlphabet, t, NoneN, TRUE, FALSE) :
        t \in Threads \cap {1, 2}}
    \cup
    UNION {{Request("int", n, "none", NoAlphabet, t, NoneN, p, TRUE) :
               n \in {NoneN, 1}, p \in ProgressFlags(t)} : t \in Threads \cap {1, 2}}
    \cup
    {Request("int", NoneN, "none", NoAlphabet, 1, 1, TRUE, TRUE)}

UnicodeAlphabet(a) ==
    [charset |-> a.charset, printable_only |-> FALSE, exclude |-> a.exclude,
     exclude_codes |-> {}]

UnicodeRequests ==
    UNION {{Request("unicode", s, e, UnicodeAlphabet(a), t, b, p, FALSE) :
               s \in UnicodeSizes(e), a \in UnicodeAlphabetsOf(t),
               b \in UnicodeBufSizesOf(e, t), p \in ProgressFlags(t)}
           : e \in Encodings, t \in Threads}
    \cup
    {Request("unicode", NoneN, e, UnicodeAlphabet(a), 1, NoneN, FALSE, d) :
        e \in Encodings, a \in UnicodeAlphabets, d \in BOOLEAN}

\* the transports a request is run against: a streaming sink is a connection whose
\* reader goes away; failing sinks are run with one or two threads
SinkKinds(r) ==
    IF r.daemon /\ r.size = NoneN THEN {"faulty"}
    ELSE IF r.size > DEFAULT_BUF_THRESHOLD \/ r.threads > 2 THEN {"reliable"}
    ELSE {"reliable", "faulty"}

Requests == AsciiRequests \cup IntRequests \cup UnicodeRequests

\* --charset strings that name a character more than once
RepeatedCharsetRequests ==
    { Request("ascii", SIMUL_BYTES, "none",
              [charset |-> <<97, 98, 97>>, printable_only |-> FALSE, exclude |-> <<>>,
               exclude_codes |-> {}], 1, NoneN, TRUE, FALSE),
      Request("unicode", 4, "utf8", UnicodeAlphabet([charset |-> <<8364, 8364>>, exclude |-> <<>>]),
              1, NoneN, TRUE, FALSE) }

\* an ascii --charset with a character above U+00FF next to --exclude-codes
WideCharsetRequests ==
    { Request("ascii", SIMUL_BYTES, "none",
              [charset |-> <<321, 97>>, printable_only |-> FALSE, exclude |-> <<>>,
               exclude_codes |-> {65}], 1, NoneN, TRUE, FALSE) }

\* an ascii --charset of 257 different characters: 256 characters from U+0100 on whose
\* low byte is not 'b', then 'b'; one group and one leftover byte
LongCharset == [i \in 1..257 |-> IF i = 257 THEN 98 ELSE IF i = 99 THEN 512 ELSE 255 + i]

LongCharsetRequests ==
    { Request("ascii", SIMUL_BYTES + 1, "none",
              [charset |-> LongCharset, printable_only |-> FALSE, exclude |-> <<>>,
               exclude_codes |-> {}], 1, NoneN, p, FALSE) : p \in BOOLEAN }

----------------------------------------------------------------------------
(* The alphabet resolvers and the chunk planners, as the code computes them. *)

ascii_universe(printable_only) ==
    IF printable_only THEN [i \in 1..95 |-> 31 + i] ELSE [i \in 1..128 |-> i - 1]

\* chars.retain(..) is SelectSeq
ascii_chars(a) ==
    LET all == IF a.charset = NoneS THEN ascii_universe(a.printable_only) ELSE a.charset
        kept == SelectSeq(all, LAMBDA c : c \notin Range(a.exclude))
    IN  SelectSeq(kept, LAMBDA c : AsU8(c) \notin a.exclude_codes)

unicode_chars(a) == SelectSeq(a.charset, LAMBDA c : c \notin Range(a.exclude))

\* buf_size.map(|b| b.to_bytes() / num_threads), None kept
divided_buf_size(a) ==
    IF a.buf_size = NoneN THEN NoneN ELSE a.buf_size \div a.threads

\* a variant that keeps the divided buffer size as it is, to test what the property
\* of the UTF-32 budgets detects
rounded_buf_size_kept(a, unit) ==
    IF a.buf_size = NoneN THEN NoneN ELSE divided_buf_size(a)

\* buf_size.map(|b| b / unit * unit)
rounded_buf_size(a, unit) ==
    IF a.buf_size = NoneN THEN NoneN ELSE (divided_buf_size(a) \div unit) * unit

\* a variant that deals the additional chunks from the last thread downwards, to
\* test what the planner properties detect
round_robin_from_last(base, additional_chunks, num_threads) ==
    [w \in 1..num_threads |->
        base + Cardinality({i \in 0..(additional_chunks - 1) :
                               i % num_threads = num_threads - w})]

\* for i in 0..additional_chunks { chunks[i % num_threads] += 1 }
round_robin(base, additional_chunks, num_threads) ==
    [w \in 1..num_threads |->
        base + Cardinality({i \in 0..(additional_chunks - 1) : i % num_threads = w - 1})]

\* chunks of generate_ascii, in groups of SIMUL_BYTES bytes
ascii_chunks(total_size, num_threads) ==
    LET full_chunks     == total_size \div (num_threads * SIMUL_BYTES)
        remaining_bytes == total_size % (num_threads * SIMUL_BYTES)
    IN  IF remaining_bytes >= SIMUL_BYTES
        THEN round_robin(full_chunks, remaining_bytes \div SIMUL_BYTES, num_threads)
        ELSE [w \in 1..num_threads |-> full_chunks]

\* a variant without the last reduction, to test what the exactness property detects
ascii_leftover_bytes_unreduced(total_size, num_threads) ==
    total_size % (num_threads * SIMUL_BYTES)

ascii_leftover_bytes(total_size, num_threads) ==
    (total_size % (num_threads * SIMUL_BYTES)) % SIMUL_BYTES

\* a variant without `chunks[0] -= 1`, to test what the chunk-sum property detects
int_chunks_undecremented(amount, num_threads) ==
    LET full_chunks     == amount \div num_threads
        remaining_bytes == amount % num_threads
    IN  IF remaining_bytes > 0
        THEN round_robin(full_chunks, remaining_bytes, num_threads)
        ELSE [w \in 1..num_threads |-> full_chunks]

\* a variant that deals the additional values from the last thread on, to test what
\* the underflow property detects
int_chunks_dealt_backwards(amount, num_threads) ==
    LET full_chunks     == amount \div num_threads
        remaining_bytes == amount % num_threads
        dealt == IF remaining_bytes > 0
                 THEN round_robin_from_last(full_chunks, remaining_bytes, num_threads)
                 ELSE [w \in 1..num_threads |-> full_chunks]
    IN  [dealt EXCEPT ![1] = @ - 1]

\* chunks of generate_int (and of generate_float, generate_uuid, generate_url), in values
int_chunks(amount, num_threads) ==
    LET full_chunks     == amount \div num_threads
        remaining_bytes == amount % num_threads
        dealt == IF remaining_bytes > 0
                 THEN round_robin(full_chunks, remaining_bytes, num_threads)
                 ELSE [w \in 1..num_threads |-> full_chunks]
    IN  [dealt EXCEPT ![1] = @ - 1]

\* a variant that gives the additional symbols to the last threads, to test what the
\* chunk order property detects
unicode_chunks_last_first(total_size, num_threads, min_byte_size) ==
    LET base_size == total_size \div (num_threads * min_byte_size)
        remainder == (total_size \div min_byte_size) % num_threads
    IN  [w \in 1..num_threads |->
            base_size * min_byte_size
            + (IF w > num_threads - remainder THEN min_byte_size ELSE 0)]

\* chunks of generate_unicode, in bytes
unicode_chunks(total_size, num_threads, min_byte_size) ==
    LET base_size == total_size \div (num_threads * min_byte_size)
        remainder == (total_size \div min_byte_size) % num_threads
    IN  [w \in 1..num_threads |->
            base_size * min_byte_size + (IF w <= remainder THEN min_byte_size ELSE 0)]

\* the buffer size a scalar worker is spawned with
int_buf_size(a, chunk_size) ==
    IF a.buf_size # NoneN THEN a.buf_size
    ELSE IF chunk_size > DEFAULT_BUF_THRESHOLD THEN chunk_size \div a.threads
    ELSE chunk_size

----------------------------------------------------------------------------
(* State. *)

VARIABLES
    args,           \* the request (GenArgs) of this run
    sink,           \* the writer's transport: "reliable" or "faulty"
    main_pc,        \* where the orchestrating thread is
    chars,          \* the resolved alphabet
    chunks,         \* the planned chunk of every worker
    spawn_i,        \* the next chunk of the spawn loop
    handles,        \* the join handles not yet joined, in spawn order
    pc,             \* where every worker thread is
    stage,          \* which part of its closure a worker runs
    rounds_left,    \* full-buffer rounds a worker still has to run
    buffer,         \* every thread's buffer (thread 0: the orchestrator's)
    current_bytes,  \* bytes of the running unicode fill
    char_index,     \* the last index a unicode fill drew
    rng,            \* every thread's random source
    writer_lock,    \* the thread holding the writer's Mutex, or NoneN
    poisoned,       \* a thread panicked while holding the Mutex
    out,            \* what the sink accepted: one record per write_all call
    write_calls,    \* every thread's write_all calls that returned Ok and Err
    progress_pos,   \* the progress bar's position
    panic           \* every thread's panic message, "" while it has none

vars == <<args, sink, main_pc, chars, chunks, spawn_i, handles, pc, stage, rounds_left,
          buffer, current_bytes, char_index, rng, writer_lock, poisoned, out, write_calls,
          progress_pos, panic>>

main_vars == <<main_pc, chars, chunks, spawn_i, handles>>
worker_vars == <<pc, stage, rounds_left, current_bytes, char_index>>

Main == 0
Workers == 1..args.threads
num_threads == args.threads

infinite == args.cmd \in {"ascii", "int"} /\ args.daemon /\ args.size = NoneN

min_byte_size == min_byte_size_of(args.encoding)

\* the atomic unit of the active mode
unit_size ==
    CASE args.cmd = "ascii" -> SIMUL_BYTES
      [] args.cmd = "int" -> 1
      [] args.cmd = "unicode" -> min_byte_size

\* size.unwrap_or(..).to_bytes(), amount.map_or(1, ..)
total_size ==
    IF args.size # NoneN THEN args.size
    ELSE CASE args.cmd = "ascii" -> DEFAULT_SIZE
           [] args.cmd = "int" -> DEFAULT_AMOUNT
           [] args.cmd = "unicode" -> min_byte_size

\* whether the run has a progress bar (Some) or not (None)
has_progress_bar ==
    IF args.cmd = "int" THEN args.progress /\ ~args.daemon ELSE args.progress

\* progress_bar.inc(n) when there is a bar
inc(n) == IF has_progress_bar THEN progress_pos + n ELSE progress_pos

InitOf(requests) ==
    /\ args \in requests
    /\ sink \in SinkKinds(args)
    /\ main_pc = "start"
    /\ chars = <<>>
    /\ chunks = <<>>
    /\ spawn_i = 1
    /\ handles = <<>>
    /\ pc = [w \in Workers |-> "unspawned"]
    /\ stage = [w \in Workers |-> "none"]
    /\ rounds_left = [w \in Workers |-> 0]
    /\ buffer = [t \in {Main} \cup Workers |-> <<>>]
    /\ current_bytes = [w \in Workers |-> 0]
    /\ char_index = [w \in Workers |-> 0]
    /\ rng = [t \in {Main} \cup Workers |-> <<>>]
    /\ writer_lock = NoneN
    /\ poisoned = FALSE
    /\ out = <<>>
    /\ write_calls = [t \in {Main} \cup Workers |-> [ok |-> 0, err |-> 0]]
    /\ progress_pos = 0
    /\ panic = [t \in {Main} \cup Workers |-> ""]

Init == InitOf(Requests)

\* once the orchestrator has panicked the process is gone: no thread runs on
Alive == main_pc # "panicked"

----------------------------------------------------------------------------
(* The orchestrating thread up to the spawn loop. *)

\* a variant without the check of the divided buffer size, to test what the
\* validation property detects
ascii_config_panic_unchecked_buffer ==
    IF ascii_chars(args) = <<>> THEN "Charset cannot be empty" ELSE ""

\* the message the function panics with before planning, "" when it passes
ascii_config_panic ==
    IF divided_buf_size(args) # NoneN /\ divided_buf_size(args) < SIMUL_BYTES
    THEN "Buffer size too small"
    ELSE IF ascii_chars(args) = <<>> THEN "Charset cannot be empty"
    ELSE ""

unicode_config_panic ==
    IF args.daemon THEN "--daemon option is not supported"
    ELSE IF divided_buf_size(args) # NoneN /\ divided_buf_size(args) < min_byte_size
    THEN "Buffer size too small"
    ELSE IF total_size < min_byte_size THEN "Size too small for encoding"
    ELSE IF total_size % min_byte_size # 0 THEN "Size must be divisible"
    ELSE IF unicode_chars(args) = <<>> THEN "Charset cannot be empty"
    ELSE ""

config_panic ==
    CASE args.cmd = "ascii" -> ascii_config_panic
      [] args.cmd = "int" -> ""
      [] args.cmd = "unicode" -> unicode_config_panic

planned_chars ==
    CASE args.cmd = "ascii" -> ascii_chars(args)
      [] args.cmd = "int" -> <<>>
      [] args.cmd = "unicode" -> unicode_chars(args)

planned_chunks ==
    CASE args.cmd = "ascii" -> ascii_chunks(total_size, num_threads)
      [] args.cmd = "int" -> int_chunks(total_size, num_threads)
      [] args.cmd = "unicode" -> unicode_chunks(total_size, num_threads, min_byte_size)

\* generate_*: validation, alphabet and plan, before any thread is spawned
Plan ==
    /\ main_pc = "start"
    /\ IF config_panic # ""
       THEN /\ main_pc' = "panicked"
            /\ panic' = [panic EXCEPT ![Main] = config_panic]
            /\ UNCHANGED <<chars, chunks>>
       ELSE /\ main_pc' = "spawn"
            /\ chars' = planned_chars
            /\ chunks' = planned_chunks
            /\ UNCHANGED panic
    /\ UNCHANGED <<args, sink, spawn_i, handles, worker_vars, buffer, writer_lock,
                   poisoned, out, progress_pos, rng, write_calls>>

\* a variant that spawns a thread for a chunk of 0 too, to test what the spawn
\* property detects
Spawn_unskipped ==
    /\ main_pc = "spawn"
    /\ spawn_i <= num_threads
    /\ pc' = [pc EXCEPT ![spawn_i] = "start"]
    /\ handles' = Append(handles, spawn_i)
    /\ spawn_i' = spawn_i + 1
    /\ UNCHANGED <<args, sink, main_pc, chars, chunks, stage, rounds_left, buffer,
                   current_bytes, char_index, rng, writer_lock, poisoned, out,
                   progress_pos, panic, write_calls>>

\* a variant that skips a chunk of 0 in a streaming run too, to test what the
\* property of the streaming workers detects
Spawn_skipping_streams ==
    /\ main_pc = "spawn"
    /\ spawn_i <= num_threads
    /\ IF chunks[spawn_i] = 0
       THEN UNCHANGED <<pc, handles>>
       ELSE /\ pc' = [pc EXCEPT ![spawn_i] = "start"]
            /\ handles' = Append(handles, spawn_i)
    /\ spawn_i' = spawn_i + 1
    /\ UNCHANGED <<args, sink, main_pc, chars, chunks, stage, rounds_left, buffer,
                   current_bytes, char_index, rng, writer_lock, poisoned, out,
                   progress_pos, panic, write_calls>>

\* one iteration of `for chunk_size in chunks`
Spawn ==
    /\ main_pc = "spawn"
    /\ spawn_i <= num_threads
    /\ IF chunks[spawn_i] = 0 /\ ~infinite
       THEN UNCHANGED <<pc, handles>>
       ELSE /\ pc' = [pc EXCEPT ![spawn_i] = "start"]
            /\ handles' = Append(handles, spawn_i)
    /\ spawn_i' = spawn_i + 1
    /\ UNCHANGED <<args, sink, main_pc, chars, chunks, stage, rounds_left, buffer,
                   current_bytes, char_index, rng, writer_lock, poisoned, out,
                   progress_pos, panic, write_calls>>

\* the spawn loop is over: on to `for handle in handles`
SpawnDone ==
    /\ main_pc = "spawn"
    /\ spawn_i > num_threads
    /\ main_pc' = "join"
    /\ UNCHANGED <<args, sink, chars, chunks, spawn_i, handles, worker_vars, buffer, rng,
                   writer_lock, poisoned, out, progress_pos, panic, write_calls>>

----------------------------------------------------------------------------
(* The generators. *)

\* the bytes generate_random_ascii_8 pushes for the outputs raws of the source
generate_random_ascii_8(raws, cs) ==
    [i \in 1..(SIMUL_BYTES * Len(raws)) |->
        LET num == gen_u64(raws[((i - 1) \div SIMUL_BYTES) + 1])
            b   == num[((i - 1) % SIMUL_BYTES) + 1]
        IN  AsU8(cs[(b % Len(cs)) + 1])]

\* what generate_random_ascii_8 adds to the progress bar for longs draws
ascii_8_progress(longs) == SIMUL_BYTES * longs

\* the bytes generate_random_ascii pushes for the outputs raws of the source
generate_random_ascii(raws, cs) ==
    [i \in 1..Len(raws) |-> AsU8(cs[gen_range(raws[i], Len(cs)) + 1])]

\* what generate_random_ascii adds to the progress bar for bytes bytes
ascii_progress(bytes) == SIMUL_BYTES * bytes

\* rng.gen_range(min..=max) of generate_int, with the default range
gen_int(raw) == IF raw = 0 THEN INT_MIN_DEFAULT ELSE INT_MAX_DEFAULT

\* the values generate_random_value pushes for the outputs raws of the source
generate_random_value(raws) == [i \in 1..Len(raws) |-> gen_int(raws[i])]

\* what generate_random_value adds to the progress bar for amount values
value_progress(amount) == amount

\* the encoded length of ch in the active encoding
encoded_len(encoding, ch) ==
    CASE encoding = "utf8" -> len_utf8(ch)
      [] encoding = "utf16" -> len_utf16(ch) * 2
      [] encoding = "utf32" -> 4

encoded_bytes(encoding, ch) ==
    CASE encoding = "utf8" -> encode_utf8(ch)
      [] encoding = "utf16" -> encode_utf16_le(ch)
      [] encoding = "utf32" -> encode_utf32_le(ch)

\* a variant that appends every draw, to test what the size properties detect
draw_fits_always(encoding, current, len, budget) == TRUE

\* a variant that appends a draw whenever bytes are left in the budget, to test what
\* the fill properties detect
draw_fits_if_room(encoding, current, len, budget) == current < budget

\* whether one iteration of generate_random_unicode appends its draw
draw_fits(encoding, current, len, budget) ==
    IF encoding = "utf32" THEN TRUE ELSE current + len <= budget

----------------------------------------------------------------------------
(* The worker threads. *)

\* the units a worker splits into rounds and remainder
byte_count(w) == IF args.cmd = "ascii" THEN chunks[w] * SIMUL_BYTES ELSE chunks[w]

\* the buf_size the worker's closure captures
worker_buf_size(w) ==
    CASE args.cmd = "ascii" ->
            IF rounded_buf_size(args, SIMUL_BYTES) = NoneN THEN byte_count(w)
            ELSE rounded_buf_size(args, SIMUL_BYTES)
      [] args.cmd = "int" -> int_buf_size(args, chunks[w])
      [] args.cmd = "unicode" ->
            IF rounded_buf_size(args, min_byte_size) = NoneN THEN chunks[w]
            ELSE rounded_buf_size(args, min_byte_size)

rounds(w) == byte_count(w) \div worker_buf_size(w)
remainder(w) == byte_count(w) % worker_buf_size(w)

\* a variant that never returns before the remainder, to test what the properties of
\* the last flush detect
no_remainder_unchecked(w) == FALSE

\* `if remainder < SIMUL_BYTES / == 0 / < min_byte_size { return; }`
no_remainder(w) ==
    CASE args.cmd = "ascii" -> remainder(w) < SIMUL_BYTES
      [] args.cmd = "int" -> remainder(w) = 0
      [] args.cmd = "unicode" -> remainder(w) < min_byte_size

\* a variant that asks for a whole buffer in the remainder stage too, to test what
\* the flush-size property detects
fill_size_whole_buffer(w) ==
    CASE stage[w] = "infinite" ->
            IF args.cmd = "ascii" THEN SIMUL_BYTES * STREAM_GROUPS ELSE STREAM_BUF_LEN
      [] stage[w] \in {"rounds", "remainder"} -> worker_buf_size(w)

\* the units the generate call of the worker's current stage asks for
fill_size(w) ==
    CASE stage[w] = "infinite" ->
            IF args.cmd = "ascii" THEN SIMUL_BYTES * STREAM_GROUPS ELSE STREAM_BUF_LEN
      [] stage[w] = "rounds" -> worker_buf_size(w)
      [] stage[w] = "remainder" -> remainder(w)

\* the sources rand::thread_rng() can hand to a thread of this run
ThreadRngs == IF args.cmd = "unicode" THEN {<<>>} ELSE Seeds

\* the thread starts: its random source, rounds and remainder of the finite closure
WorkerStart(w) ==
    /\ Alive
    /\ pc[w] = "start"
    /\ \E seed \in ThreadRngs : rng' = [rng EXCEPT ![w] = seed]
    /\ IF infinite
       THEN /\ stage' = [stage EXCEPT ![w] = "infinite"]
            /\ pc' = [pc EXCEPT ![w] = "gen"]
            /\ UNCHANGED <<rounds_left, panic>>
       ELSE IF worker_buf_size(w) = 0
       THEN /\ pc' = [pc EXCEPT ![w] = "panicked"]
            /\ panic' = [panic EXCEPT ![w] = "attempt to divide by zero"]
            /\ UNCHANGED <<stage, rounds_left>>
       ELSE /\ rounds_left' = [rounds_left EXCEPT ![w] = rounds(w)]
            /\ stage' = [stage EXCEPT ![w] = IF rounds(w) > 0 THEN "rounds" ELSE "remainder"]
            /\ pc' = [pc EXCEPT ![w] = "gen"]
            /\ UNCHANGED panic
    /\ UNCHANGED <<args, sink, main_vars, buffer, current_bytes, char_index, writer_lock,
                   poisoned, out, progress_pos, write_calls>>

\* what the generate calls of an ascii worker's stage push and add to the progress
\* bar: generate_random_ascii_8, then (remainder only) generate_random_ascii
ascii_fill(w) ==
    LET n == fill_size(w)
        longs == n \div SIMUL_BYTES
        tail == IF stage[w] = "remainder" THEN n - longs * SIMUL_BYTES ELSE 0
    IN  [bytes |-> generate_random_ascii_8(Draws(rng[w], longs), chars)
                   \o generate_random_ascii(Draws(Advance(rng[w], longs), tail), chars),
         progress |-> ascii_8_progress(longs) + ascii_progress(tail),
         draws |-> longs + tail]

\* what generate_random_value of a scalar worker's stage pushes and adds
int_fill(w) ==
    [bytes |-> generate_random_value(Draws(rng[w], fill_size(w))),
     progress |-> value_progress(fill_size(w)),
     draws |-> fill_size(w)]

\* a whole generate call of an ascii or scalar worker, or its return without a remainder
WorkerGenerate(w) ==
    /\ Alive
    /\ pc[w] = "gen"
    /\ args.cmd \in {"ascii", "int"}
    /\ IF stage[w] = "remainder" /\ no_remainder(w)
       THEN /\ pc' = [pc EXCEPT ![w] = "done"]
            /\ UNCHANGED <<buffer, progress_pos, rng>>
       ELSE /\ pc' = [pc EXCEPT ![w] = "lock"]
            /\ \E f \in {IF args.cmd = "ascii" THEN ascii_fill(w) ELSE int_fill(w)} :
                  /\ buffer' = [buffer EXCEPT ![w] = @ \o f.bytes]
                  /\ progress_pos' = inc(f.progress)
                  /\ rng' = [rng EXCEPT ![w] = Advance(@, f.draws)]
    /\ UNCHANGED <<args, sink, main_vars, stage, rounds_left, current_bytes, char_index,
                   writer_lock, poisoned, out, panic, write_calls>>

\* one iteration of the while loop of generate_random_unicode, or the return
\* without a remainder
WorkerDraw(w) ==
    /\ Alive
    /\ pc[w] = "gen"
    /\ args.cmd = "unicode"
    /\ IF stage[w] = "remainder" /\ no_remainder(w)
       THEN /\ pc' = [pc EXCEPT ![w] = "done"]
            /\ UNCHANGED <<buffer, progress_pos, current_bytes, char_index>>
       ELSE \E i \in 0..(Len(chars) - 1) :
            LET ch  == chars[i + 1]
                len == encoded_len(args.encoding, ch)
                fits == draw_fits(args.encoding, current_bytes[w], len, fill_size(w))
                now == IF fits THEN current_bytes[w] + len ELSE current_bytes[w]
            IN  /\ char_index' = [char_index EXCEPT ![w] = IF now < fill_size(w) THEN i ELSE 0]
                /\ current_bytes' = [current_bytes EXCEPT ![w] = now]
                /\ buffer' = [buffer EXCEPT ![w] =
                                 IF fits THEN @ \o encoded_bytes(args.encoding, ch) ELSE @]
                /\ progress_pos' = IF fits THEN inc(len) ELSE progress_pos
                /\ pc' = [pc EXCEPT ![w] = IF now < fill_size(w) THEN "gen" ELSE "lock"]
    /\ UNCHANGED <<args, sink, main_vars, stage, rounds_left, rng, writer_lock, poisoned,
                   out, panic, write_calls>>

----------------------------------------------------------------------------
(* The sink and the flushes. *)

\* whether the next write_all can return Ok, and whether it can return Err
CanSucceed == infinite => Len(out) < MaxStreamWrites
CanFail == sink = "faulty" \/ ~CanSucceed

\* a variant that puts the bytes in front of what the sink holds, to test what the
\* ordering property detects
Accept_in_front(t, data) ==
    IF data = <<>> THEN out ELSE <<[by |-> t, data |-> data]>> \o out

Accept(t, data) == IF data = <<>> THEN out ELSE Append(out, [by |-> t, data |-> data])

\* write_calls after a write_all call of thread t returned result
Returned(t, result) ==
    IF result = "ok" THEN [write_calls EXCEPT ![t].ok = @ + 1]
    ELSE [write_calls EXCEPT ![t].err = @ + 1]

\* the bytes the first write_all of a worker's flush is called with
flush_data(t) == IF args.cmd = "int" THEN JoinLines(buffer[t]) ELSE buffer[t]

\* where a worker goes on after a flush that returned Ok
FlushDone(w) ==
    /\ buffer' = [buffer EXCEPT ![w] = <<>>]
    /\ writer_lock' = NoneN
    /\ current_bytes' = [current_bytes EXCEPT ![w] = 0]
    /\ CASE stage[w] = "infinite" ->
              /\ pc' = [pc EXCEPT ![w] = "gen"]
              /\ UNCHANGED <<stage, rounds_left>>
         [] stage[w] = "rounds" ->
              /\ rounds_left' = [rounds_left EXCEPT ![w] = @ - 1]
              /\ stage' = [stage EXCEPT ![w] = IF rounds_left[w] > 1 THEN "rounds"
                                               ELSE "remainder"]
              /\ pc' = [pc EXCEPT ![w] = "gen"]
         [] stage[w] = "remainder" ->
              /\ pc' = [pc EXCEPT ![w] = "done"]
              /\ UNCHANGED <<stage, rounds_left>>
    /\ UNCHANGED panic

\* a variant whose streaming worker flushes again, to test what the streaming
\* property detects
FlushFailed_retrying(w) ==
    /\ writer_lock' = NoneN
    /\ IF stage[w] = "infinite"
       THEN /\ pc' = [pc EXCEPT ![w] = "lock"]
            /\ UNCHANGED panic
       ELSE /\ pc' = [pc EXCEPT ![w] = "panicked"]
            /\ panic' = [panic EXCEPT ![w] = "Failed to write to buffer"]
    /\ UNCHANGED <<buffer, current_bytes, stage, rounds_left>>

\* a variant whose failed streaming write stops every worker, as a shared
\* cancellation flag would, to test what the independence property detects
FlushFailed_cancelling(w) ==
    /\ writer_lock' = NoneN
    /\ IF stage[w] = "infinite"
       THEN /\ pc' = [v \in DOMAIN pc |-> "exited"]
            /\ UNCHANGED panic
       ELSE /\ pc' = [pc EXCEPT ![w] = "panicked"]
            /\ panic' = [panic EXCEPT ![w] = "Failed to write to buffer"]
    /\ UNCHANGED <<buffer, current_bytes, stage, rounds_left>>

\* a variant whose streaming worker panics on the error like a finite one, to test
\* what the streaming exit property detects
FlushFailed_panicking(w) ==
    /\ writer_lock' = NoneN
    /\ pc' = [pc EXCEPT ![w] = "panicked"]
    /\ panic' = [panic EXCEPT ![w] = "Failed to write to buffer"]
    /\ UNCHANGED <<buffer, current_bytes, stage, rounds_left>>

\* a variant whose finite worker ignores the error and returns, to test what the
\* fatal-failure property detects
FlushFailed_swallowed(w) ==
    /\ writer_lock' = NoneN
    /\ pc' = [pc EXCEPT ![w] = IF stage[w] = "infinite" THEN "exited" ELSE "done"]
    /\ UNCHANGED <<panic, buffer, current_bytes, stage, rounds_left>>

\* a variant whose worker fails with the guard alive, to test what the property of
\* the released lock detects
FlushFailed_holding(w) ==
    /\ writer_lock' = writer_lock
    /\ IF stage[w] = "infinite"
       THEN /\ pc' = [pc EXCEPT ![w] = "exited"]
            /\ UNCHANGED panic
       ELSE /\ pc' = [pc EXCEPT ![w] = "panicked"]
            /\ panic' = [panic EXCEPT ![w] = "Failed to write to buffer"]
    /\ UNCHANGED <<buffer, current_bytes, stage, rounds_left>>

\* a flush returned Err: the guard is dropped, the finite worker panics on expect,
\* the streaming worker breaks out of its loop
FlushFailed(w) ==
    /\ writer_lock' = NoneN
    /\ IF stage[w] = "infinite"
       THEN /\ pc' = [pc EXCEPT ![w] = "exited"]
            /\ UNCHANGED panic
       ELSE /\ pc' = [pc EXCEPT ![w] = "panicked"]
            /\ panic' = [panic EXCEPT ![w] = "Failed to write to buffer"]
    /\ UNCHANGED <<buffer, current_bytes, stage, rounds_left>>

\* a variant that does not wait for the Mutex, to test what the exclusion property
\* detects
Lock_unguarded(w) ==
    /\ Alive
    /\ pc[w] = "lock"
    /\ pc' = [pc EXCEPT ![w] = "write"]
    /\ writer_lock' = w
    /\ UNCHANGED <<args, sink, main_vars, stage, rounds_left, buffer, current_bytes,
                   char_index, poisoned, out, progress_pos, rng, write_calls, panic>>

\* writer.lock().expect("Failed to lock writer")
Lock(w) ==
    /\ Alive
    /\ pc[w] = "lock"
    /\ writer_lock = NoneN
    /\ IF poisoned
       THEN /\ pc' = [pc EXCEPT ![w] = "panicked"]
            /\ panic' = [panic EXCEPT ![w] = "Failed to lock writer"]
            /\ UNCHANGED writer_lock
       ELSE /\ pc' = [pc EXCEPT ![w] = "write"]
            /\ writer_lock' = w
            /\ UNCHANGED panic
    /\ UNCHANGED <<args, sink, main_vars, stage, rounds_left, buffer, current_bytes,
                   char_index, poisoned, out, progress_pos, rng, write_calls>>

\* the first write_all of write_from_buffer / writeln, under the lock
Write(w) ==
    /\ Alive
    /\ pc[w] = "write"
    /\ writer_lock = w
    /\ \/ /\ CanSucceed
          /\ write_calls' = Returned(w, "ok")
          /\ out' = Accept(w, flush_data(w))
          /\ IF args.cmd = "int"
             THEN /\ pc' = [pc EXCEPT ![w] = "write_nl"]
                  /\ UNCHANGED <<buffer, writer_lock, current_bytes, stage, rounds_left,
                                 panic>>
             ELSE FlushDone(w)
       \/ /\ CanFail
          /\ UNCHANGED out
          /\ write_calls' = Returned(w, "err")
          /\ FlushFailed(w)
    /\ UNCHANGED <<args, sink, main_vars, char_index, rng, poisoned, progress_pos>>

\* writer.write_all(b"\n")? of writeln, still under the lock
WriteNewline(w) ==
    /\ Alive
    /\ pc[w] = "write_nl"
    /\ writer_lock = w
    /\ \/ /\ CanSucceed
          /\ out' = Accept(w, <<NEWLINE>>)
          /\ write_calls' = Returned(w, "ok")
          /\ FlushDone(w)
       \/ /\ CanFail
          /\ UNCHANGED out
          /\ write_calls' = Returned(w, "err")
          /\ FlushFailed(w)
    /\ UNCHANGED <<args, sink, main_vars, char_index, rng, poisoned, progress_pos>>

----------------------------------------------------------------------------
(* The orchestrating thread after the spawn loop. *)

Terminated(w) == pc[w] \in {"done", "exited", "panicked"}

\* a variant that takes the next handle without waiting for its thread, to test what
\* the ordering property of the orchestrator's write detects
Join_unawaited ==
    /\ main_pc = "join"
    /\ handles # <<>>
    /\ IF pc[Head(handles)] = "panicked"
       THEN /\ main_pc' = "panicked"
            /\ panic' = [panic EXCEPT ![Main] = "Thread panicked"]
       ELSE /\ UNCHANGED <<main_pc, panic>>
    /\ handles' = Tail(handles)
    /\ UNCHANGED <<args, sink, chars, chunks, spawn_i, worker_vars, buffer, writer_lock,
                   poisoned, out, progress_pos, rng, write_calls>>

\* handle.join().expect("Thread panicked") of the next handle
Join ==
    /\ main_pc = "join"
    /\ handles # <<>>
    /\ Terminated(Head(handles))
    /\ IF pc[Head(handles)] = "panicked"
       THEN /\ main_pc' = "panicked"
            /\ panic' = [panic EXCEPT ![Main] = "Thread panicked"]
       ELSE /\ UNCHANGED <<main_pc, panic>>
    /\ handles' = Tail(handles)
    /\ UNCHANGED <<args, sink, chars, chunks, spawn_i, worker_vars, buffer, writer_lock,
                   poisoned, out, progress_pos, rng, write_calls>>

leftover_bytes == ascii_leftover_bytes(total_size, num_threads)

\* what the orchestrator generates after the joins from the source r: the leftover
\* bytes (generate_random_ascii) or the last value
leftover_fill(r) ==
    CASE args.cmd = "ascii" ->
            [bytes |-> generate_random_ascii(Draws(r, leftover_bytes), chars),
             progress |-> ascii_progress(leftover_bytes), draws |-> leftover_bytes]
      [] args.cmd = "int" ->
            [bytes |-> generate_random_value(Draws(r, 1)), progress |-> 0, draws |-> 1]

\* every handle is joined: return, or generate the leftover bytes / the last value
AfterJoin ==
    /\ main_pc = "join"
    /\ handles = <<>>
    /\ IF infinite \/ args.cmd = "unicode" \/ (args.cmd = "ascii" /\ leftover_bytes = 0)
       THEN /\ main_pc' = "done"
            /\ UNCHANGED <<buffer, progress_pos, rng>>
       ELSE \E seed \in ThreadRngs :
            LET f == leftover_fill(seed)
            IN  /\ buffer' = [buffer EXCEPT ![Main] = f.bytes]
                /\ progress_pos' = inc(f.progress)
                /\ rng' = [rng EXCEPT ![Main] = Advance(seed, f.draws)]
                /\ main_pc' = "lock"
    /\ UNCHANGED <<args, sink, chars, chunks, spawn_i, handles, worker_vars, writer_lock,
                   poisoned, out, panic, write_calls>>

MainLock ==
    /\ main_pc = "lock"
    /\ writer_lock = NoneN
    /\ IF poisoned
       THEN /\ main_pc' = "panicked"
            /\ panic' = [panic EXCEPT ![Main] = "Failed to lock writer"]
            /\ UNCHANGED writer_lock
       ELSE /\ main_pc' = "write"
            /\ writer_lock' = Main
            /\ UNCHANGED panic
    /\ UNCHANGED <<args, sink, chars, chunks, spawn_i, handles, worker_vars, buffer,
                   poisoned, out, progress_pos, rng, write_calls>>

\* write_from_buffer(..).expect(..) of generate_ascii, write(..) of the scalar modes:
\* write panics on the error with the guard alive, which poisons the Mutex
MainWrite ==
    /\ main_pc = "write"
    /\ writer_lock = Main
    /\ \/ /\ CanSucceed
          /\ out' = Accept(Main, flush_data(Main))
          /\ write_calls' = Returned(Main, "ok")
          /\ buffer' = [buffer EXCEPT ![Main] = IF args.cmd = "ascii" THEN <<>> ELSE @]
          /\ main_pc' = "done"
          /\ UNCHANGED <<panic, poisoned>>
       \/ /\ CanFail
          /\ UNCHANGED out
          /\ write_calls' = Returned(Main, "err")
          /\ main_pc' = "panicked"
          /\ panic' = [panic EXCEPT ![Main] = "Failed to write to buffer"]
          /\ poisoned' = (args.cmd = "int")
          /\ UNCHANGED buffer
    /\ writer_lock' = NoneN
    /\ UNCHANGED <<args, sink, chars, chunks, spawn_i, handles, worker_vars, rng,
                   progress_pos>>

----------------------------------------------------------------------------
(* The system. *)

WorkerStep(w) ==
    \/ WorkerStart(w)
    \/ WorkerGenerate(w)
    \/ WorkerDraw(w)
    \/ Lock(w)
    \/ Write(w)
    \/ WriteNewline(w)

MainStep == Plan \/ Spawn \/ SpawnDone \/ Join \/ AfterJoin \/ MainLock \/ MainWrite

Next ==
    \/ MainStep
    \/ \E w \in Workers : WorkerStep(w)

Spec == Init /\ [][Next]_vars

----------------------------------------------------------------------------
(* The runs of one command. *)

Finite(requests) == {r \in requests : ~(r.daemon /\ r.size = NoneN)}

\* the runs with a size or an amount, or without --daemon
FiniteSpec == InitOf(Finite(Requests)) /\ [][Next]_vars

\* generate_ascii with a size, or without --daemon
AsciiInit == InitOf(Finite(AsciiRequests))

AsciiNext ==
    \/ MainStep
    \/ \E w \in Workers : WorkerStart(w) \/ WorkerGenerate(w) \/ Lock(w) \/ Write(w)

AsciiSpec == AsciiInit /\ [][AsciiNext]_vars

\* generate_int with an amount, or without --daemon
IntInit == InitOf(Finite(IntRequests))

IntNext ==
    \/ MainStep
    \/ \E w \in Workers :
          WorkerStart(w) \/ WorkerGenerate(w) \/ Lock(w) \/ Write(w) \/ WriteNewline(w)

IntSpec == IntInit /\ [][IntNext]_vars

\* generate_unicode
UnicodeInit == InitOf(UnicodeRequests)

UnicodeNext ==
    \/ Plan \/ Spawn \/ SpawnDone \/ Join \/ AfterJoin
    \/ \E w \in Workers : WorkerStart(w) \/ WorkerDraw(w) \/ Lock(w) \/ Write(w)

UnicodeSpec == UnicodeInit /\ [][UnicodeNext]_vars

\* --daemon without a size or an amount: the workers loop until a write fails
StreamInit == InitOf((AsciiRequests \cup IntRequests) \ Finite(AsciiRequests \cup IntRequests))

StreamNext ==
    \/ Plan \/ Spawn \/ SpawnDone \/ Join \/ AfterJoin
    \/ \E w \in Workers :
          WorkerStart(w) \/ WorkerGenerate(w) \/ Lock(w) \/ Write(w) \/ WriteNewline(w)

StreamSpec == StreamInit /\ [][StreamNext]_vars

\* Fair scheduling of the streaming runs: the process does not stand still while one
\* of its threads can take a step.
StreamFairSpec ==
    /\ StreamInit
    /\ [][StreamNext]_vars
    /\ WF_vars(StreamNext)

\* an iteration of the fill loop whose draw is appended
AcceptedDraw(w) == WorkerDraw(w) /\ current_bytes'[w] > current_bytes[w]

\* Fair scheduling of the finite runs: the orchestrator and every worker keep running
\* while they can, and a fill loop that has a symbol that fits eventually draws one.
FairSpec ==
    /\ InitOf(Finite(Requests))
    /\ [][Next]_vars
    /\ WF_vars(MainStep)
    /\ \A w \in Threads : WF_vars(w \in Workers /\ WorkerStep(w))
    /\ \A w \in Threads : WF_vars(w \in Workers /\ AcceptedDraw(w))

\* validation, alphabet and plan of every request
PlanSpec ==
    InitOf(Requests \cup RepeatedCharsetRequests \cup WideCharsetRequests) /\ [][Plan]_vars

\* more threads than the chunk of each of them, every chunk above DEFAULT_BUF_THRESHOLD
ManyThreads == DEFAULT_BUF_THRESHOLD + 2

ManyThreadsRequests ==
    {Request("int", ManyThreads * (DEFAULT_BUF_THRESHOLD + 1) + 1, "none", NoAlphabet,
             ManyThreads, NoneN, TRUE, FALSE)}

\* The schedule in which a worker runs only while the orchestrator waits for it in
\* join: the runs of generate_int under it, those with ManyThreads threads included.
SerialInit == InitOf(Finite(IntRequests) \cup ManyThreadsRequests)

Joining(w) == main_pc = "join" /\ handles # <<>> /\ w = Head(handles)

SerialNext ==
    \/ MainStep
    \/ \E w \in Workers :
          \/ Joining(w) /\ WorkerStart(w)
          \/ Joining(w) /\ WorkerGenerate(w)
          \/ Joining(w) /\ Lock(w)
          \/ Joining(w) /\ Write(w)
          \/ Joining(w) /\ WriteNewline(w)

SerialSpec == SerialInit /\ [][SerialNext]_vars

----------------------------------------------------------------------------
(* Properties. *)

\* the number of bytes the sink has accepted
bytes_written == SumSeq([i \in 1..Len(out) |-> Len(out[i].data)])

\* the run has completed: the orchestrator returned from generate_*
Completed == main_pc = "done"

\* the run has ended: generate_* returned or the orchestrating thread panicked
Ended == main_pc \in {"done", "panicked"}

\* every byte the sink has accepted, in the order of the writes
RECURSIVE SinkRange(_, _)
SinkRange(lo, hi) ==
    IF lo > hi THEN <<>>
    ELSE IF lo = hi THEN out[lo].data
    ELSE LET mid == (lo + hi) \div 2 IN SinkRange(lo, mid) \o SinkRange(mid + 1, hi)

sink_bytes == SinkRange(1, Len(out))

\* the number of newline-separated values in the sink
values_written ==
    LET b == sink_bytes
    IN  Cardinality({i \in 1..Len(b) : b[i] # NEWLINE /\ (i = 1 \/ b[i - 1] = NEWLINE)})

\* C1: a finite ascii run against a sink whose writes never fail that has completed
\* has written exactly total_size bytes (the workers' flushes plus the leftover).
C1_AsciiExactness ==
    (args.cmd = "ascii" /\ ~infinite /\ sink = "reliable" /\ Completed)
        => bytes_written = total_size

\* two workers with a divided buffer, three flushes and one leftover byte
C1_Witness ==
    /\ args.cmd = "ascii" /\ sink = "reliable" /\ Completed
    /\ num_threads = 2 /\ args.buf_size = 2 * SIMUL_BYTES
    /\ total_size = 3 * SIMUL_BYTES + 1
    /\ Len(out) = 4 /\ out[4].by = Main /\ bytes_written = total_size

\* C2: a finite scalar run against a sink whose writes never fail ends with exactly
\* amount values in the sink (the workers' values plus the orchestrator's one), for
\* every amount, number of threads and buffer length.
C2_ScalarExactness ==
    (args.cmd = "int" /\ ~infinite /\ sink = "reliable" /\ Ended)
        => (Completed /\ values_written = total_size)

\* C3: in a unicode run the bytes written never exceed total_size, and are exactly
\* total_size when the run has completed.
C3_UnicodeExactness ==
    args.cmd = "unicode"
        => /\ bytes_written <= total_size
           /\ Completed => bytes_written = total_size

\* a completed UTF-16 run of two workers that wrote a surrogate pair
C3_Witness ==
    /\ args.cmd = "unicode" /\ args.encoding = "utf16" /\ Completed
    /\ num_threads = 2 /\ total_size = 8 /\ bytes_written = 8
    /\ \E i \in 1..Len(out) : out[i].data = encode_utf16_le(128512)

\* C4: under fair scheduling every finite request that passed validation, run against
\* a sink whose writes never fail, runs to completion: the workers terminate, the
\* orchestrator joins them and returns.
C4_FiniteTermination ==
    (~infinite /\ sink = "reliable" /\ main_pc = "spawn") ~> Completed

\* what the orchestrator generates itself after the joins, in bytes or values
orchestrator_part ==
    CASE args.cmd = "ascii" -> leftover_bytes
      [] args.cmd = "int" -> 1
      [] args.cmd = "unicode" -> 0

\* what the plan hands to the workers, in bytes or values
planned_sum == SumSeq(chunks) * (IF args.cmd = "ascii" THEN SIMUL_BYTES ELSE 1)

Planned == main_pc = "spawn" /\ ~infinite

Malformed == NoneN

\* the code points a UTF-8 byte sequence decodes to from index i on, ending with
\* Malformed where it is not a whole encoded symbol
RECURSIVE decode_utf8(_, _)
decode_utf8(b, i) ==
    IF i > Len(b) THEN <<>>
    ELSE LET n == CASE b[i] < 128 -> 1
                    [] b[i] \in 192..223 -> 2
                    [] b[i] \in 224..239 -> 3
                    [] b[i] \in 240..247 -> 4
                    [] OTHER -> 0
             cont(k) == b[i + k] - 128
         IN  IF n = 0 \/ i + n - 1 > Len(b) \/ (\E k \in 1..(n - 1) : b[i + k] \notin 128..191)
             THEN <<Malformed>>
             ELSE <<CASE n = 1 -> b[i]
                      [] n = 2 -> (b[i] - 192) * 64 + cont(1)
                      [] n = 3 -> (b[i] - 224) * 4096 + cont(1) * 64 + cont(2)
                      [] n = 4 -> (b[i] - 240) * 262144 + cont(1) * 4096 + cont(2) * 64
                                  + cont(3)>>
                  \o decode_utf8(b, i + n)

\* the same for UTF-16 in little-endian bytes
RECURSIVE decode_utf16_le(_, _)
decode_utf16_le(b, i) ==
    IF i > Len(b) THEN <<>>
    ELSE IF i + 1 > Len(b) THEN <<Malformed>>
    ELSE LET unit == b[i] + 256 * b[i + 1]
         IN  IF unit \notin 55296..57343 THEN <<unit>> \o decode_utf16_le(b, i + 2)
             ELSE IF unit >= 56320 \/ i + 3 > Len(b) THEN <<Malformed>>
             ELSE LET low == b[i + 2] + 256 * b[i + 3]
                  IN  IF low \notin 56320..57343 THEN <<Malformed>>
                      ELSE <<65536 + (unit - 55296) * 1024 + (low - 56320)>>
                           \o decode_utf16_le(b, i + 4)

\* the same for UTF-32 in little-endian bytes
RECURSIVE decode_utf32_le(_, _)
decode_utf32_le(b, i) ==
    IF i > Len(b) THEN <<>>
    ELSE IF i + 3 > Len(b) THEN <<Malformed>>
    ELSE LET v == b[i] + 256 * b[i + 1] + 65536 * b[i + 2] + 16777216 * b[i + 3]
         IN  IF b[i + 3] # 0 \/ v > 1114111 \/ v \in 55296..57343 THEN <<Malformed>>
             ELSE <<v>> \o decode_utf32_le(b, i + 4)

decode(encoding, b) ==
    CASE encoding = "utf8" -> decode_utf8(b, 1)
      [] encoding = "utf16" -> decode_utf16_le(b, 1)
      [] encoding = "utf32" -> decode_utf32_le(b, 1)

\* C6: in a unicode run every buffer handed to the sink is a whole number of
\* completely encoded symbols of the active encoding.
C6_WholeSymbols ==
    args.cmd = "unicode" =>
        \A i \in 1..Len(out) : Malformed \notin Range(decode(args.encoding, out[i].data))

\* a completed UTF-8 run of a three-byte round that starts with a two-byte symbol,
\* and a remainder
C6_Witness ==
    /\ args.cmd = "unicode" /\ args.encoding = "utf8" /\ Completed
    /\ Len(out) = 2
    /\ out[1].data = encode_utf8(233) \o encode_utf8(97)
    /\ out[2].data = encode_utf8(97)

\* C7: every byte (ascii) or symbol (unicode) in the sink is a member of the resolved
\* alphabet, and no symbol of the exclusion string and no excluded code is in the sink.
C7_AlphabetContainment ==
    \A i \in 1..Len(out) :
        CASE args.cmd = "ascii" ->
                /\ Range(out[i].data) \subseteq Range(chars)
                /\ Range(out[i].data) \cap Range(args.exclude) = {}
                /\ Range(out[i].data) \cap args.exclude_codes = {}
          [] args.cmd = "unicode" ->
                /\ Range(decode(args.encoding, out[i].data)) \subseteq Range(chars)
                /\ Range(decode(args.encoding, out[i].data)) \cap Range(args.exclude) = {}
          [] OTHER -> TRUE

\* C8: in a finite ascii or unicode run with a progress bar the position only
\* increases, never exceeds total_size, and is total_size when the run has completed.
C8_ProgressBounded ==
    /\ []((args.cmd \in {"ascii", "unicode"} /\ ~infinite /\ has_progress_bar)
            => /\ progress_pos <= total_size
               /\ Completed => progress_pos = total_size)
    /\ [][progress_pos' >= progress_pos]_vars

\* C9: in a finite scalar run with a progress bar the position is the requested
\* amount when the run has completed.
C9_ScalarProgressFinal ==
    (args.cmd = "int" /\ ~infinite /\ has_progress_bar /\ Completed)
        => progress_pos = total_size

\* C10: in a streaming run a worker whose write_all returned an error makes no further
\* write_all call and never acquires the writer's lock again.
C10_NoWriteAfterError ==
    [][\A w \in Workers :
          write_calls[w].err > 0 => /\ write_calls'[w] = write_calls[w]
                                    /\ writer_lock' # w]_vars

\* a scalar streaming worker whose join was written and whose trailing newline failed
\* has left its loop, and the run has returned
C10_Witness ==
    /\ infinite /\ args.cmd = "int" /\ Completed
    /\ \E w \in Workers :
          /\ write_calls[w] = [ok |-> 1, err |-> 1]
          /\ pc[w] = "exited"
          /\ Len(buffer[w]) = STREAM_BUF_LEN

\* thread t is between the lock() and the end of its flush
InFlush(t) == IF t = Main THEN main_pc = "write" ELSE pc[t] \in {"write", "write_nl"}

\* C11: at most one thread is inside a sink write and it holds the lock; every write
\* is made by the holder of the lock; the joined values of a scalar flush are followed
\* directly by the same worker's newline (unless that write_all failed), so no other
\* thread's bytes come between them.
C11_ExclusiveFlush ==
    /\ \A t \in {Main} \cup Workers : InFlush(t) => writer_lock = t
    /\ \A i \in 1..Len(out) :
          (args.cmd = "int" /\ out[i].by # Main /\ out[i].data # <<NEWLINE>>) =>
              IF i < Len(out)
              THEN \/ out[i + 1] = [by |-> out[i].by, data |-> <<NEWLINE>>]
                   \/ write_calls[out[i].by].err > 0
              ELSE InFlush(out[i].by) \/ write_calls[out[i].by].err > 0

\* a scalar worker is between its two write_all calls while the other worker waits
\* for the lock, after an earlier whole flush
C11_Witness ==
    /\ args.cmd = "int" /\ num_threads = 2
    /\ \E w, v \in Workers :
          /\ w # v /\ pc[w] = "write_nl" /\ pc[v] = "lock"
          /\ Len(out) = 3 /\ out[3].by = w /\ out[1].by = v

\* a write_all call of worker w has returned an error
WriteFailed(w) == write_calls[w].err > 0

\* C12: in a finite run, once a worker's write has failed the run never completes
\* successfully (when it has ended, the orchestrator has panicked) and the
\* orchestrator generates and writes no leftover bytes and no final value.
C12_FatalWriteFailure ==
    (~infinite /\ \E w \in Workers : WriteFailed(w)) =>
        /\ main_pc \notin {"done", "lock", "write"}
        /\ buffer[Main] = <<>>
        /\ \A i \in 1..Len(out) : out[i].by # Main

\* an ascii run with a leftover: the first worker flushed, the second worker's write
\* failed, and the orchestrator has panicked in join with nothing written by itself
C12_Witness ==
    /\ args.cmd = "ascii" /\ ~infinite /\ num_threads = 2 /\ leftover_bytes > 0
    /\ WriteFailed(2) /\ pc[2] = "panicked" /\ pc[1] = "done"
    /\ main_pc = "panicked" /\ panic[Main] = "Thread panicked"
    /\ Len(out) = 1 /\ out[1].by = 1

\* the orchestrator has surfaced a worker's failure: join().expect panicked
Aborted == main_pc = "panicked" /\ panic[Main] = "Thread panicked"

\* C13: in a finite run, when the orchestrator aborts on a worker's failure every
\* spawned worker has been joined: no handle is left unjoined and no worker is
\* still running, whichever worker failed.
C13_AbortAfterAllJoined ==
    (~infinite /\ Aborted) =>
        /\ handles = <<>>
        /\ \A w \in Workers : pc[w] # "unspawned" => Terminated(w)

\* the alphabet left after --exclude / --exclude-codes is empty
EmptyAlphabet == args.cmd \in {"ascii", "unicode"} /\ planned_chars = <<>>

\* --buf-size divided by the number of threads is below the atomic unit
BufferBelowUnit ==
    /\ args.cmd \in {"ascii", "unicode"}
    /\ args.buf_size # NoneN
    /\ args.buf_size \div num_threads < unit_size

\* the size of a unicode run is below, or not a multiple of, the encoding's width
UnicodeSizeMisaligned ==
    /\ args.cmd = "unicode"
    /\ (total_size < min_byte_size \/ total_size % min_byte_size # 0)

\* C14: with an empty resolved alphabet, a divided buffer size below the atomic
\* unit, or a unicode size below or not a multiple of the encoding's width, the run
\* fails before a worker is spawned: it never gets past validation, no worker ever
\* leaves "unspawned" and nothing is written.
C14_ValidationBeforeSpawn ==
    (EmptyAlphabet \/ BufferBelowUnit \/ UnicodeSizeMisaligned) =>
        /\ main_pc \in {"start", "panicked"}
        /\ \A w \in Workers : pc[w] = "unspawned"
        /\ handles = <<>>
        /\ out = <<>>
        /\ \A t \in {Main} \cup Workers : write_calls[t] = [ok |-> 0, err |-> 0]

\* an ascii run with two threads whose buffer size is below SIMUL_BYTES after the
\* division has panicked in validation
C14_Witness ==
    /\ args.cmd = "ascii" /\ num_threads = 2 /\ BufferBelowUnit /\ ~EmptyAlphabet
    /\ main_pc = "panicked" /\ panic[Main] = "Buffer size too small"

\* no thread of the run has panicked
NoPanic ==
    /\ main_pc # "panicked"
    /\ \A t \in {Main} \cup Workers : panic[t] = ""
    /\ \A w \in Workers : pc[w] # "panicked"

\* every worker has left its loop and the orchestrator has returned normally, having
\* generated and written nothing itself
StreamEnded ==
    /\ Completed
    /\ \A w \in Workers : pc[w] = "exited"
    /\ buffer[Main] = <<>>
    /\ write_calls[Main] = [ok |-> 0, err |-> 0]
    /\ \A i \in 1..Len(out) : out[i].by # Main

\* C15: in streaming mode a failed write is never fatal (no thread ever panics), and
\* once every further write fails, under fair scheduling every worker eventually
\* leaves its loop and the orchestrator returns normally without writing leftover
\* bytes or a final value.
C15_StreamingGracefulExit ==
    /\ [](infinite => NoPanic)
    /\ (infinite /\ ~CanSucceed) ~> StreamEnded

\* a streaming run of two workers whose sink has stopped accepting writes: both
\* workers attempted a write that failed, left their loops, and the run returned
C15_Witness ==
    /\ infinite /\ num_threads = 2 /\ ~CanSucceed
    /\ \A w \in Workers : WriteFailed(w) /\ pc[w] = "exited"
    /\ Completed /\ NoPanic

\* the step in which worker w leaves its streaming loop
Exits(w) == pc[w] # "exited" /\ pc'[w] = "exited"

\* the step leaves everything worker v owns as it is
WorkerUntouched(v) ==
    /\ pc'[v] = pc[v] /\ stage'[v] = stage[v] /\ rounds_left'[v] = rounds_left[v]
    /\ buffer'[v] = buffer[v] /\ current_bytes'[v] = current_bytes[v]
    /\ rng'[v] = rng[v] /\ write_calls'[v] = write_calls[v]

\* C16: in streaming mode a worker stops only after a write of its own has failed,
\* and the step in which one worker exits changes nothing of any other worker (no
\* shared cancellation) and leaves the lock free for them.
C16_IndependentExit ==
    /\ [](infinite => \A w \in Workers : pc[w] = "exited" => WriteFailed(w))
    /\ [][infinite =>
            \A w \in Workers :
                Exits(w) => /\ writer_lock' = NoneN
                            /\ \A v \in Workers \ {w} : WorkerUntouched(v)]_vars

\* one worker has left its loop after its failed write while the other one is still
\* in its loop and the sink still accepts writes
C16_Witness ==
    /\ infinite /\ num_threads = 2 /\ CanSucceed
    /\ \E w, v \in Workers :
          /\ pc[w] = "exited" /\ WriteFailed(w)
          /\ pc[v] = "write" /\ ~WriteFailed(v) /\ Len(buffer[v]) > 0

\* C17: the alphabet the run resolved is a non-empty sequence of distinct symbols,
\* whatever the charset string, one that repeats a character included.
C17_DistinctAlphabet ==
    (args.cmd \in {"ascii", "unicode"} /\ main_pc \notin {"start", "panicked"}) =>
        /\ chars # <<>>
        /\ \A i, j \in 1..Len(chars) : i # j => chars[i] # chars[j]

\* C18: with a caller-supplied buffer size B no worker's buffer ever holds more than
\* B bytes (values in the scalar modes), in finite and in streaming runs, so that the
\* buffers of all workers together hold at most threads * B.
C18_BufferBounded ==
    args.buf_size # NoneN =>
        /\ \A w \in Workers : Len(buffer[w]) <= args.buf_size
        /\ SumSeq([w \in 1..num_threads |-> Len(buffer[w])]) <= num_threads * args.buf_size

\* the bytes (values) the code's plan hands to each worker
planned_bytes == [w \in 1..num_threads |-> byte_count(w)]

\* C19: in the ascii mode (unit 8) and the unicode mode (unit 1/2/4, a size that is
\* a multiple of it) the per-worker byte counts and the leftover of the code's plan
\* are those of the five-step planner (whole groups per worker, the remaining whole
\* groups dealt round-robin from worker 0, the rest as leftover), every chunk is a
\* multiple of the atomic unit, and the unicode leftover is 0.
C19_PlannerRefinement ==
    (Planned /\ args.cmd \in {"ascii", "unicode"}) =>
        LET units_per_worker_group == total_size \div (num_threads * unit_size)
            base == units_per_worker_group * unit_size
            remaining == total_size % (num_threads * unit_size)
            extra == IF remaining >= unit_size THEN remaining \div unit_size ELSE 0
            dealt(w) == Cardinality({i \in 0..(extra - 1) : i % num_threads = w - 1})
            leftover == remaining % unit_size
        IN  /\ planned_bytes = [w \in 1..num_threads |-> base + unit_size * dealt(w)]
            /\ orchestrator_part = leftover
            /\ \A w \in 1..num_threads : planned_bytes[w] % unit_size = 0
            /\ args.cmd = "unicode" => orchestrator_part = 0

\* an ascii plan for two threads with an extra group for the first one and a leftover
C19_Witness ==
    /\ Planned /\ args.cmd = "ascii" /\ num_threads = 2
    /\ total_size = 3 * SIMUL_BYTES + 1
    /\ planned_bytes = <<2 * SIMUL_BYTES, SIMUL_BYTES>> /\ orchestrator_part = 1

\* sizes[w] >= sizes[v] for every earlier worker w and later worker v
NonIncreasing(sizes) ==
    \A w, v \in DOMAIN sizes : w < v => sizes[w] >= sizes[v]

\* any two of the sizes differ by at most unit
WithinOneUnit(sizes, unit) ==
    \A w, v \in DOMAIN sizes : sizes[w] - sizes[v] <= unit

reserved_values == IF args.cmd = "int" THEN 1 ELSE 0

C21_AlphabetResolution ==
    LET universe == IF args.printable_only THEN [i \in 1..95 |-> 31 + i]
                    ELSE [i \in 1..128 |-> i - 1]
        inclusion == IF args.charset = NoneS THEN universe ELSE args.charset
        expected == SelectSeq(inclusion,
                              LAMBDA c : c \notin Range(args.exclude)
                                         /\ c \notin args.exclude_codes)
    IN  (/\ args.cmd \in {"ascii", "unicode"}
         /\ main_pc # "start"
         /\ panic[Main] \in {"", "Charset cannot be empty"}) =>
            /\ (panic[Main] = "Charset cannot be empty") <=> (expected = <<>>)
            /\ expected # <<>> => chars = expected

\* the workers a thread was spawned for
Spawned == {w \in Workers : pc[w] # "unspawned"}

orchestrator_write_due ==
    args.cmd = "int" \/ (args.cmd = "ascii" /\ leftover_bytes > 0)

\* C23: in a finite run the orchestrator writes the ascii leftover bytes (total mod 8)
\* or the scalar modes' last value with one single write_all, which starts only after
\* every spawned worker has terminated; what it writes stays the last record of the
\* output, and ascii runs without leftover bytes (and unicode runs) have no such write.
C23_OrchestratorWritesLast ==
    (~infinite /\ main_pc # "start") =>
        /\ main_pc \in {"lock", "write"} =>
               /\ orchestrator_write_due
               /\ \A w \in Workers : pc[w] = "unspawned" \/ Terminated(w)
        /\ write_calls[Main].ok + write_calls[Main].err <= 1
        /\ \A i \in 1..Len(out) :
               out[i].by = Main =>
                   /\ i = Len(out)
                   /\ write_calls[Main].ok = 1
                   /\ \A w \in Workers : pc[w] = "unspawned" \/ Terminated(w)
                   /\ args.cmd = "ascii" => Len(out[i].data) = leftover_bytes
        /\ ~orchestrator_write_due =>
               write_calls[Main].ok + write_calls[Main].err = 0
        /\ (Completed /\ orchestrator_write_due) =>
               /\ out # <<>>
               /\ out[Len(out)].by = Main

\* two ascii workers flushed and the orchestrator's leftover byte follows them
C23_Witness ==
    /\ args.cmd = "ascii" /\ ~infinite /\ num_threads = 2 /\ leftover_bytes > 0
    /\ Completed
    /\ Len(out) >= 3
    /\ out[Len(out)].by = Main
    /\ \E i, j \in 1..Len(out) - 1 : out[i].by = 1 /\ out[j].by = 2

\* the units of one record of the output: bytes, or the values of a joined buffer
record_units(data) ==
    IF args.cmd = "int"
    THEN Cardinality({j \in 1..Len(data) : data[j] = NEWLINE}) + 1
    ELSE Len(data)

\* the units of the buffers worker w has flushed, in the order of its flushes (the
\* newline that ends a scalar flush is no buffer)
flushed_units(w) ==
    LET records == SelectSeq(out, LAMBDA r : r.by = w /\ r.data # <<NEWLINE>>)
    IN  [i \in 1..Len(records) |-> record_units(records[i].data)]

\* C24: in a finite run a worker's buffer never holds more units than its capacity;
\* its i-th flush has exactly buffer_capacity units for i <= rounds, a later flush is
\* the last one and has exactly chunk mod buffer_capacity units, not 0; the flushes of
\* a worker that returned are the rounds and the non-zero remainder, and their units
\* sum to its chunk; the step that completes a successful flush leaves the worker's
\* buffer empty.
C24_BufferDiscipline ==
    /\ [](\A w \in Workers :
            (~infinite /\ pc[w] \notin {"unspawned", "start"} /\ worker_buf_size(w) > 0) =>
                LET capacity == worker_buf_size(w)
                    chunk == byte_count(w)
                    flushes == flushed_units(w)
                IN  /\ Len(buffer[w]) <= capacity
                    /\ \A i \in 1..Len(flushes) :
                           IF i <= chunk \div capacity
                           THEN flushes[i] = capacity
                           ELSE /\ i = chunk \div capacity + 1
                                /\ flushes[i] = chunk % capacity
                                /\ flushes[i] # 0
                    /\ pc[w] = "done" =>
                           /\ buffer[w] = <<>>
                           /\ Len(flushes) = chunk \div capacity
                                             + (IF chunk % capacity # 0 THEN 1 ELSE 0)
                           /\ SumSeq(flushes) = chunk)
    /\ [][\A w \in Workers :
            (/\ ~infinite
             /\ pc[w] \in {"write", "write_nl"}
             /\ write_calls'[w].ok > write_calls[w].ok
             /\ pc'[w] # "write_nl") => buffer'[w] = <<>>]_vars

\* a scalar worker with a capacity of 2 returned after flushing 2 values and then 1
C24_Witness ==
    \E w \in Workers :
        /\ args.cmd = "int" /\ ~infinite /\ pc[w] = "done"
        /\ worker_buf_size(w) = 2 /\ chunks[w] = 3
        /\ flushed_units(w) = <<2, 1>>

\* C25: in a UTF-8 or UTF-16 fill the running byte count (the bytes pushed by the
\* fill) never exceeds the budget; an iteration whose draw would exceed the budget
\* leaves the buffer, the running byte count and the progress counter unchanged and
\* stays in the loop; the fill returns only with the running byte count equal to the
\* budget.
C25_FillWithinBudget ==
    /\ [](\A w \in Workers :
            (/\ args.cmd = "unicode" /\ args.encoding \in {"utf8", "utf16"}
             /\ pc[w] \in {"gen", "lock", "write"}) =>
                /\ current_bytes[w] <= fill_size(w)
                /\ current_bytes[w] = Len(buffer[w])
                /\ pc[w] \in {"lock", "write"} => current_bytes[w] = fill_size(w))
    /\ [][\A w \in Workers :
            (/\ args.encoding \in {"utf8", "utf16"}
             /\ WorkerDraw(w)
             /\ ~(stage[w] = "remainder" /\ no_remainder(w))) =>
                /\ pc'[w] = "lock" => current_bytes'[w] = fill_size(w)
                /\ pc'[w] = "gen" =>
                       LET ch == chars[char_index'[w] + 1]
                       IN  /\ current_bytes'[w] < fill_size(w)
                           /\ current_bytes[w] + encoded_len(args.encoding, ch) > fill_size(w)
                                  => /\ buffer'[w] = buffer[w]
                                     /\ current_bytes'[w] = current_bytes[w]
                                     /\ progress_pos' = progress_pos
                                     /\ out' = out]_vars

\* a UTF-8 fill holds one byte and has just drawn a symbol that is longer than the
\* bytes left in its budget: the draw was not appended
C25_Witness ==
    \E w \in Workers :
        /\ args.cmd = "unicode" /\ args.encoding = "utf8" /\ pc[w] = "gen"
        /\ current_bytes[w] = 1 /\ Len(buffer[w]) = 1
        /\ fill_size(w) - current_bytes[w] \in 1..3
        /\ encoded_len(args.encoding, chars[char_index[w] + 1]) = 4

\* the units the sink has accepted: values in the scalar modes, bytes otherwise
units_written == IF args.cmd = "int" THEN values_written ELSE bytes_written

\* C26: in every state of a run with a progress bar, in every mode, the units already
\* written to the sink are at most the position of the progress bar (units are
\* counted when they are generated, before their flush).
C26_CountedBeforeWritten ==
    has_progress_bar => units_written <= progress_pos

\* C27: the output only grows at its end, and every write_all of a worker that
\* succeeds puts that worker's buffer (or the newline that ends a scalar flush) behind
\* everything written before, while the worker holds the writer: the buffers of one
\* worker are in the output in the order of its flushes, whatever the other threads do.
C27_FlushOrder ==
    [][/\ Len(out') >= Len(out)
       /\ SubSeq(out', 1, Len(out)) = out
       /\ \A w \in Workers :
              write_calls'[w].ok > write_calls[w].ok =>
                  /\ writer_lock = w
                  /\ buffer[w] # <<>>
                  /\ out' = Append(out, [by |-> w,
                                         data |-> IF pc[w] = "write_nl" THEN <<NEWLINE>>
                                                  ELSE flush_data(w)])]_vars

\* both orders between two workers in one output: a buffer of the worker spawned last
\* is in front of a buffer of the worker spawned first, which is in front of another
\* buffer of the worker spawned last
C27_Witness ==
    \E i, j, k \in 1..Len(out) :
        /\ i < j /\ j < k
        /\ out[i].by = 2 /\ out[j].by = 1 /\ out[k].by = 2
        /\ \A n \in {i, j, k} : out[n].data # <<NEWLINE>>

\* num.to_ne_bytes().map(|b| (b as usize) % chars_len) for the bytes num of a u64
char_indices(num, chars_len) == [i \in 1..SIMUL_BYTES |-> num[i] % chars_len]

\* the finite runs of generate_ascii, those with an alphabet of more than 256
\* characters included
FastPathSpec == InitOf(Finite(AsciiRequests) \cup LongCharsetRequests) /\ [][AsciiNext]_vars

\* C28: for every alphabet the byte sequences the batched path can push for k groups
\* are those that one index in [0, chars_len) per byte can push for 8k bytes, and every
\* symbol of the alphabet is producible by the batched path.  The eight bytes of a
\* u64 are independent and every u64 is a possible draw, so the sequences of either
\* path are all sequences over the bytes the path can push at one position: the
\* sets are compared position by position, for the alphabet the run has resolved.
C28_FastPathEquivalence ==
    (args.cmd = "ascii" /\ main_pc = "spawn" /\ chars # <<>>) =>
        LET chars_len == Len(chars)
            fast(p) == {AsU8(chars[char_indices([i \in 1..SIMUL_BYTES |-> b], chars_len)[p] + 1]) :
                           b \in 0..255}
            slow == {AsU8(chars[num + 1]) : num \in 0..(chars_len - 1)}
        IN  /\ \A p \in {1, SIMUL_BYTES} : fast(p) = slow
            /\ \A num \in 0..(chars_len - 1) :
                   \E b \in 0..255 :
                       char_indices([i \in 1..SIMUL_BYTES |-> b], chars_len)[1] = num

\* C29: in a finite scalar run no thread flushes an empty buffer and the output never
\* has an empty line (a newline at its start or behind another newline); when the
\* run has completed the output is exactly amount values, amount - 1 newlines, one
\* behind each value but the last, and no newline at its end.
C29_ScalarLines ==
    (args.cmd = "int" /\ ~infinite) =>
        LET b == sink_bytes
            newlines == {i \in 1..Len(b) : b[i] = NEWLINE}
        IN  /\ \A w \in Workers :
                   pc[w] \in {"lock", "write", "write_nl"} => buffer[w] # <<>>
            /\ \A i \in newlines : i > 1 /\ b[i - 1] # NEWLINE
            /\ Completed =>
                   /\ total_size >= 1
                   /\ values_written = total_size
                   /\ Cardinality(newlines) = total_size - 1
                   /\ b # <<>> /\ b[Len(b)] # NEWLINE

\* four values of two workers and the orchestrator: three newlines, none at the end
C29_Witness ==
    /\ args.cmd = "int" /\ ~infinite /\ Completed
    /\ num_threads = 2 /\ total_size = 4 /\ args.buf_size = 1
    /\ values_written = 4
    /\ Cardinality({i \in 1..Len(sink_bytes) : sink_bytes[i] = NEWLINE}) = 3
    /\ out[Len(out)].by = Main

C31_SomeSymbolFits ==
    \A w \in Workers :
        (/\ args.cmd = "unicode" /\ args.encoding \in {"utf8", "utf16"}
         /\ pc[w] = "gen"
         /\ ~(stage[w] = "remainder" /\ no_remainder(w))
         /\ current_bytes[w] < fill_size(w)) =>
            \E i \in 1..Len(chars) :
                current_bytes[w] + encoded_len(args.encoding, chars[i]) <= fill_size(w)

\* C32: no thread ever finds the writer's Mutex poisoned (no lock() fails, and the
\* Mutex is poisoned only when no thread of the process runs any more); a worker
\* whose write failed does not hold the lock when it has panicked or left its loop,
\* so a worker that waits for the lock while the process is alive finds it free or
\* held by a thread that is inside its flush.
C32_LockNeverPoisoned ==
    /\ \A t \in {Main} \cup Workers : panic[t] # "Failed to lock writer"
    /\ poisoned => ~Alive
    /\ \A w \in Workers : Terminated(w) => writer_lock # w
    /\ \A w \in Workers : writer_lock = w => pc[w] \in {"write", "write_nl"}

\* a finite worker's write failed and it panicked; after that another worker
\* acquired the lock and is inside its flush
C32_Witness ==
    \E w, v \in Workers :
        /\ ~infinite /\ Alive
        /\ pc[w] = "panicked" /\ panic[w] = "Failed to write to buffer"
        /\ write_calls[w].err = 1
        /\ pc[v] = "write" /\ writer_lock = v /\ ~poisoned

\* C33: the buffer size of every spawned worker of a finite scalar run is at least 1,
\* the default chunk_size / num_threads of a chunk above 1000 included, and no worker
\* divides by zero.
C33_ScalarBufferPositive ==
    \A w \in Workers :
        (args.cmd = "int" /\ ~infinite /\ pc[w] # "unspawned") =>
            /\ worker_buf_size(w) >= 1
            /\ panic[w] # "attempt to divide by zero"

\* C34: in the scalar modes chunks[0] is at least 1 after the round-robin
\* distribution, for every amount >= 1 and every number of threads, so `chunks[0] -= 1`
\* does not underflow: every planned chunk is at least 0 and the chunks sum to
\* amount - 1.
C34_NoChunkUnderflow ==
    (args.cmd = "int" /\ main_pc = "spawn") =>
        /\ total_size >= 1 /\ num_threads >= 1
        /\ Len(chunks) = num_threads
        /\ chunks[1] + 1 >= 1
        /\ \A w \in 1..num_threads : chunks[w] >= 0
        /\ SumSeq(chunks) = total_size - 1

\* one value for two threads: the only additional value goes to chunks[0], which is 0
\* after the decrement
C34_Witness ==
    /\ args.cmd = "int" /\ main_pc = "spawn"
    /\ total_size = 1 /\ num_threads = 2 /\ chunks = <<0, 0>>

\* C35: every budget a worker passes to the UTF-32 fill (the rounded buffer size in
\* a round, the remainder of the chunk behind the rounds) is a positive multiple of
\* 4; the fill has pushed a multiple of 4 bytes, never more than the budget, and the
\* buffer it hands to the flush holds the budget exactly.
C35_Utf32Budget ==
    \A w \in Workers :
        (/\ args.cmd = "unicode" /\ args.encoding = "utf32"
         /\ pc[w] \in {"gen", "lock", "write"}
         /\ ~(pc[w] = "gen" /\ stage[w] = "remainder" /\ no_remainder(w))) =>
            /\ fill_size(w) > 0
            /\ fill_size(w) % 4 = 0
            /\ current_bytes[w] % 4 = 0
            /\ current_bytes[w] <= fill_size(w)
            /\ Len(buffer[w]) = current_bytes[w]
            /\ pc[w] \in {"lock", "write"} => current_bytes[w] = fill_size(w)

\* --buf-size 9 is rounded to 8: the UTF-32 fill of a round has pushed two symbols
\* and the worker goes to its flush
C35_Witness ==
    \E w \in Workers :
        /\ args.cmd = "unicode" /\ args.encoding = "utf32" /\ args.buf_size = 9
        /\ pc[w] = "lock" /\ stage[w] = "rounds"
        /\ fill_size(w) = 8 /\ current_bytes[w] = 8 /\ Len(buffer[w]) = 8

\* C36: whenever a thread generates (a worker was spawned, or the orchestrator
\* generates the leftover bytes), the alphabet is not empty, and every index the
\* generators compute for it is in [0, chars_len): the eight indices of a u64 in the
\* batched ascii path, the gen_range draw of the per-byte ascii path, and the draw
\* of the unicode fill.
C36_IndexInAlphabet ==
    (/\ args.cmd \in {"ascii", "unicode"}
     /\ \/ \E w \in Workers : pc[w] # "unspawned"
        \/ main_pc \in {"spawn", "join", "lock", "write", "done"}) =>
        LET chars_len == Len(chars)
        IN  /\ chars_len > 0
            /\ \A raw \in {0, 1} :
                   /\ \A i \in 1..SIMUL_BYTES :
                          /\ char_indices(gen_u64(raw), chars_len)[i] >= 0
                          /\ char_indices(gen_u64(raw), chars_len)[i] < chars_len
                   /\ gen_range(raw, chars_len) >= 0
                   /\ gen_range(raw, chars_len) < chars_len
            /\ \A w \in Workers : char_index[w] >= 0 /\ char_index[w] < chars_len

\* a unicode fill has drawn the last symbol of its alphabet
C36_Witness ==
    \E w \in Workers :
        /\ args.cmd = "unicode" /\ pc[w] = "gen" /\ Len(chars) = 3
        /\ char_index[w] = Len(chars) - 1
        /\ buffer[w] # <<>>

====
